---- MODULE Spec2Model ----
(***************************************************************************)
(* A model of the console rendering code of cli-helpers:                   *)
(*   src/formatting_utils.py   (ConsoleFormatter)                          *)
(*   src/drive_stuff/dsk.py    (the drive space analyzer)                  *)
(*   src/file_manipulation/recycle.py  (the recycle bin manager)           *)
(*                                                                         *)
(* Strings are sequences of code points (27 is ESC, 91 is "[", ...), so    *)
(* that the character classes of the two ANSI regular expressions are the  *)
(* ranges the source writes.  A byte count is [m, e], the number          *)
(* m * 1024^e, and a size in a unit is an exact rational n/d: these inputs *)
(* are kept where the float arithmetic of the source is exact.  A          *)
(* percentage is a binary64 float, computed with the rounding of the       *)
(* hardware (section Floats).                                              *)
(***************************************************************************)
EXTENDS Integers, Sequences, FiniteSets, TLC

VARIABLES
    call,     \* the last library call made: its function, arguments, result
    disk,     \* the volumes of the machine: volume -> usage or "fail"
    term,     \* what os.get_terminal_size() gives: a width, or 0 when it raises
    argv,     \* dsk.main: what parse_known_args gives: the switch -all and the
              \* arguments the parser does not know
    host,     \* dsk.main: the machine: Windows or not, the volumes that
              \* exist, the drive of the working directory
    drives,   \* dsk.main: the drives selected for the report
    pc,       \* dsk.main: position in main
    idx,      \* dsk.main: index of the next drive of the loop
    out,      \* dsk.main: the lines that have reached the standard output
    rendered, \* dsk.main: the drives whose block has been printed, in order
    args,     \* recycle.main: the switches -e and -i of the command line
    trash,    \* recycle.main: the system, what scanning and what emptying
              \* the trash give, and the terminal
    rpc,      \* recycle.main: position in main
    printed,  \* recycle.main: the texts printed so far
    calls     \* recycle.main: the functions main has called, with results

vars == <<call, disk, term, argv, host, drives, pc, idx, out, rendered,
          args, trash, rpc, printed, calls>>

----------------------------------------------------------------------------
(* Bounds of the model *)

MaxStrLen == 4        \* longest enumerated input of get_visible_length
MaxCenterLen == 3     \* longest enumerated input of center_with_ansi
MaxCenterWidth == 8   \* largest width given to center_with_ansi
MaxBarWidth == 20     \* largest enumerated width of a progress bar
MaxOver == 30         \* how far a percentage goes below 0 and above 100
MaxExp == 6           \* largest power of 1024 scaling a byte count
MaxPrecision == 2     \* largest precision given to format_size
MaxArgs == 2          \* most unknown arguments in one run of dsk.main

----------------------------------------------------------------------------
(* Arithmetic helpers *)

Max(a, b) == IF a >= b THEN a ELSE b

Min(a, b) == IF a <= b THEN a ELSE b

\* Python's int(x) of the rational n/d (d > 0): truncation towards zero
Trunc(n, d) == IF n >= 0 THEN n \div d ELSE -((-n) \div d)

\* Python's round-half-even of the rational n/d (n >= 0, d > 0), the rounding
\* of round(x), round(x, k) and of the format specification .kf
RoundHalfEven(n, d) ==
    LET q == n \div d
        r == n % d
    IN  IF 2 * r > d THEN q + 1
        ELSE IF 2 * r < d THEN q
        ELSE IF q % 2 = 0 THEN q ELSE q + 1

RECURSIVE Pow(_, _)
Pow(b, k) == IF k <= 0 THEN 1 ELSE b * Pow(b, k - 1)

\* Python's  s * n  for a one-character string: empty when n <= 0
Rep(c, n) == [i \in 1..Max(n, 0) |-> c]

RECURSIVE Digits(_)
\* str(n) for n >= 0, as code points
Digits(n) == IF n < 10 THEN <<48 + n>> ELSE Digits(n \div 10) \o <<48 + (n % 10)>>

\* the decimal digits of n, zero-padded on the left to k digits
PadDigits(n, k) == LET d == Digits(n) IN Rep(48, k - Len(d)) \o d

\* str.rjust(k): left-padded with spaces to k characters
RJust(s, k) == Rep(32, k - Len(s)) \o s

RECURSIVE SeqsUpTo(_, _)
SeqsUpTo(S, k) ==
    IF k = 0 THEN {<<>>}
    ELSE LET T == SeqsUpTo(S, k - 1)
         IN  T \cup {Append(t, c) : t \in {u \in T : Len(u) = k - 1}, c \in S}

----------------------------------------------------------------------------
(* Characters and colours (colorama's Fore and Style are ANSI CSI strings) *)

ESC == 27
LBRACKET == 91
SPACE == 32

\* ESC [ <code> m, the form of every colorama colour
Sgr(code) == <<ESC, LBRACKET>> \o Digits(code) \o <<109>>

ForeRED == Sgr(31)
ForeGREEN == Sgr(32)
ForeYELLOW == Sgr(33)
ForeBLUE == Sgr(34)
ForeCYAN == Sgr(36)
ForeRESET == Sgr(39)
ForeLIGHTRED == Sgr(91)
StyleRESET_ALL == Sgr(0)

PROGRESS_BAR_FILLED == 9608
PROGRESS_BAR_EMPTY == 9617
DEFAULT_CONSOLE_WIDTH == 80
CRITICAL_THRESHOLD == 90
WARNING_THRESHOLD == 70

----------------------------------------------------------------------------
(* AnsiTextMeasure: the two get_visible_length *)

\* formatting_utils.py:52   \033\[(?:[0-9;]+)*[mGK]
FmtParams == (48..57) \cup {59}
FmtFinals == {109, 71, 75}

\* dsk.py:190   \x1B(?:[@-Z\\-_]|\[[0-?]*[ -/]*[@-~])
DskFe == (64..90) \cup (92..95)
DskParams == 48..63
DskInters == 32..47
DskFinals == 64..126

RECURSIVE SkipWhile(_, _, _)
\* the first index j >= i of s whose character is not in class (Len(s)+1 if none):
\* what a greedy  [class]*  consumes from i
SkipWhile(s, i, class) ==
    IF i <= Len(s) /\ s[i] \in class THEN SkipWhile(s, i + 1, class) ELSE i

\* a slip of FmtMatchEnd: the final byte is optional at the end of the string
FmtMatchEnd_final_optional(s, i) ==
    IF i + 1 <= Len(s) /\ s[i] = ESC /\ s[i + 1] = LBRACKET
    THEN LET j == SkipWhile(s, i + 2, FmtParams)
         IN  IF j <= Len(s) /\ s[j] \in FmtFinals THEN j
             ELSE IF j > Len(s) THEN Len(s) ELSE 0
    ELSE 0

\* the index of the last character of the match of the ConsoleFormatter
\* pattern that starts at i, 0 when there is none
FmtMatchEnd(s, i) ==
    IF i + 1 <= Len(s) /\ s[i] = ESC /\ s[i + 1] = LBRACKET
    THEN LET j == SkipWhile(s, i + 2, FmtParams)
         IN  IF j <= Len(s) /\ s[j] \in FmtFinals THEN j ELSE 0
    ELSE 0

\* the same for the pattern of dsk.py
DskMatchEnd(s, i) ==
    IF i + 1 <= Len(s) /\ s[i] = ESC
    THEN IF s[i + 1] \in DskFe THEN i + 1
         ELSE IF s[i + 1] = LBRACKET
         THEN LET j == SkipWhile(s, i + 2, DskParams)
                  k == SkipWhile(s, j, DskInters)
              IN  IF k <= Len(s) /\ s[k] \in DskFinals THEN k ELSE 0
         ELSE 0
    ELSE 0

RECURSIVE FmtReSub(_, _)
\* re.sub(ansi_escape, '', text) from index i: leftmost non-overlapping matches removed
FmtReSub(s, i) ==
    LET starts == {j \in i..Len(s) : FmtMatchEnd(s, j) > 0}
    IN  IF starts = {} THEN SubSeq(s, i, Len(s))
        ELSE LET j == CHOOSE x \in starts : \A y \in starts : x <= y
             IN  SubSeq(s, i, j - 1) \o FmtReSub(s, FmtMatchEnd(s, j) + 1)

RECURSIVE DskReSub(_, _)
\* ansi_escape.sub('', string) from index i
DskReSub(s, i) ==
    LET starts == {j \in i..Len(s) : DskMatchEnd(s, j) > 0}
    IN  IF starts = {} THEN SubSeq(s, i, Len(s))
        ELSE LET j == CHOOSE x \in starts : \A y \in starts : x <= y
             IN  SubSeq(s, i, j - 1) \o DskReSub(s, DskMatchEnd(s, j) + 1)

Fmt_get_visible_length(text) == Len(FmtReSub(text, 1))

Dsk_get_visible_length(string) == Len(DskReSub(string, 1))

----------------------------------------------------------------------------
(* Layout engine: the two center_with_ansi *)

\* a slip of center_with_ansi: the padding is added on both sides (str.center)
Fmt_center_with_ansi_both_sides(text, width) ==
    LET visible_length == Fmt_get_visible_length(text)
        padding == (width - visible_length) \div 2
    IN  Rep(SPACE, padding) \o text \o Rep(SPACE, padding)

Fmt_center_with_ansi(text, width) ==
    LET visible_length == Fmt_get_visible_length(text)
        padding == (width - visible_length) \div 2
    IN  Rep(SPACE, padding) \o text

\* a slip of center_with_ansi: the half of the slack is rounded up
Dsk_center_with_ansi_ceil(string, width) ==
    LET visible_length == Dsk_get_visible_length(string)
        padding == (width - visible_length + 1) \div 2
    IN  Rep(SPACE, padding) \o string

Dsk_center_with_ansi(string, width) ==
    LET visible_length == Dsk_get_visible_length(string)
        padding == (width - visible_length) \div 2
    IN  Rep(SPACE, padding) \o string

----------------------------------------------------------------------------
(* Floats.  A float (IEEE 754 binary64) is [neg, m, e]: the number          *)
(* (-1)^neg * m * 2^e with m < 2^54 an integer of four limbs of 18 bits,    *)
(* least significant first.  An operation computes the exact result and     *)
(* rounds it to 53 significant bits, ties to even, as the hardware does;    *)
(* the values met are far from the overflow and subnormal ranges.           *)

LIMB == 262144        \* 2^18, the base of the limbs

FLOAT_BITS == 53      \* significant bits of a binary64

\* 2^k for k in 0..30
Pow2(k) ==
    <<1, 2, 4, 8, 16, 32, 64, 128, 256, 512, 1024, 2048, 4096, 8192, 16384,
      32768, 65536, 131072, 262144, 524288, 1048576, 2097152, 4194304, 8388608,
      16777216, 33554432, 67108864, 134217728, 268435456, 536870912,
      1073741824>>[k + 1]

\* the limbs of a machine integer v >= 0
BigFromInt(v) == <<v % LIMB, v \div LIMB, 0, 0>>

\* limb i of x, 0 outside it
BigLimb(x, i) == IF i \in 1..4 THEN x[i] ELSE 0

\* the number of bits of v (0 for 0), v < 2^31
IntBitLen(v) ==
    IF v = 0 THEN 0
    ELSE CHOOSE L \in 1..31 :
            /\ (L = 31 \/ v < Pow2(L))
            /\ v >= Pow2(L - 1)

BigBitLen(x) ==
    IF x[4] > 0 THEN 54 + IntBitLen(x[4])
    ELSE IF x[3] > 0 THEN 36 + IntBitLen(x[3])
    ELSE IF x[2] > 0 THEN 18 + IntBitLen(x[2])
    ELSE IntBitLen(x[1])

\* x * 2^t
BigShl(x, t) ==
    LET a == t \div 18
        s == t % 18
        lo == Pow2(18 - s)
        y(i) == (BigLimb(x, i - a) % lo) * Pow2(s) + BigLimb(x, i - a - 1) \div lo
    IN  <<y(1), y(2), y(3), y(4)>>

\* floor(x / 2^t)
BigShr(x, t) ==
    LET a == t \div 18
        s == t % 18
        p == Pow2(s)
        y(i) == BigLimb(x, i + a) \div p + (BigLimb(x, i + a + 1) % p) * Pow2(18 - s)
    IN  <<y(1), y(2), y(3), y(4)>>

\* x * k for 0 <= k < 2^12
BigMulSmall(x, k) ==
    LET c1 == x[1] * k
        c2 == x[2] * k + c1 \div LIMB
        c3 == x[3] * k + c2 \div LIMB
        c4 == x[4] * k + c3 \div LIMB
    IN  <<c1 % LIMB, c2 % LIMB, c3 % LIMB, c4>>

\* quotient and remainder of x by k, 0 < k < 2^12
BigDivSmall(x, k) ==
    LET t4 == x[4]
        t3 == (t4 % k) * LIMB + x[3]
        t2 == (t3 % k) * LIMB + x[2]
        t1 == (t2 % k) * LIMB + x[1]
    IN  [q |-> <<t1 \div k, t2 \div k, t3 \div k, t4 \div k>>, r |-> t1 % k]

\* x / 2^t rounded to an integer, ties to even; sticky tells that the exact
\* value lies above x by less than one unit
BigRoundShr(x, t, sticky) ==
    IF t = 0 THEN x
    ELSE LET q == BigShr(x, t)
             h == BigShr(x, t - 1)
             half == h[1] % 2 = 1
             rest == sticky \/ BigShl(h, t - 1) # x
             inc == IF q[1] + 1 < LIMB THEN <<q[1] + 1, q[2], q[3], q[4]>>
                    ELSE IF q[2] + 1 < LIMB THEN <<0, q[2] + 1, q[3], q[4]>>
                    ELSE IF q[3] + 1 < LIMB THEN <<0, 0, q[3] + 1, q[4]>>
                    ELSE <<0, 0, 0, q[4] + 1>>
         IN  IF half /\ (rest \/ q[1] % 2 = 1) THEN inc ELSE q

\* the float nearest to (-1)^neg * (x + a fraction, when sticky) * 2^e
FloatRound(neg, x, e, sticky) ==
    LET t == Max(0, BigBitLen(x) - FLOAT_BITS)
    IN  [neg |-> neg, m |-> BigRoundShr(x, t, sticky), e |-> e + t]

\* float(n / d) for a power of two d: exact
FloatFromDyadic(n, d) ==
    [neg |-> n < 0, m |-> BigFromInt(IF n < 0 THEN -n ELSE n),
     e |-> 1 - IntBitLen(d)]

RECURSIVE LongDivide(_, _, _, _, _)
\* f further bits of the quotient q, remainder r, of a division by b, in
\* digits of c bits at most, b * 2^c <= 2^30 (as long as the quotient fits
\* its limbs)
LongDivide(q, r, b, c, f) ==
    IF f = 0 \/ q[4] >= LIMB THEN [q |-> q, r |-> r]
    ELSE LET k == Min(c, f)
             t == r * Pow2(k)
             q2 == BigShl(q, k)
         IN  LongDivide(<<q2[1] + t \div b, q2[2], q2[3], q2[4]>>, t % b, b, c, f - k)

\* a / b of two integers, 0 <= a < 2^30, 0 < b < 2^29: Python's true
\* division, the quotient computed to 55 bits or more and then rounded
FloatDivInts(a, b) ==
    IF a = 0 THEN [neg |-> FALSE, m |-> <<0, 0, 0, 0>>, e |-> 0]
    ELSE LET f == 56 + IntBitLen(b) - IntBitLen(a)
             c == IF IntBitLen(b) <= 12 THEN 18 ELSE 30 - IntBitLen(b)
             d == LongDivide(BigFromInt(a \div b), a % b, b, c, f)
         IN  FloatRound(FALSE, d.q, -f, d.r # 0)

\* x * k for an integer 0 <= k < 2^12
FloatMulInt(x, k) == FloatRound(x.neg, BigMulSmall(x.m, k), x.e, FALSE)

\* x / k for an integer 0 < k < 2^12
FloatDivInt(x, k) ==
    IF x.m = <<0, 0, 0, 0>> THEN x
    ELSE LET t == 55 + IntBitLen(k) - BigBitLen(x.m)
             d == BigDivSmall(BigShl(x.m, t), k)
         IN  FloatRound(x.neg, d.q, x.e - t, d.r # 0)

\* floor(|x|), which fits a machine integer
FloatFloorAbs(x) ==
    LET y == IF x.e >= 0 THEN BigShl(x.m, x.e) ELSE BigShr(x.m, -x.e)
    IN  y[1] + y[2] * LIMB

\* int(x): towards zero
FloatToInt(x) == IF x.neg THEN -FloatFloorAbs(x) ELSE FloatFloorAbs(x)

\* x >= k for an integer k > 0
FloatGeqInt(x, k) == ~x.neg /\ FloatFloorAbs(x) >= k

----------------------------------------------------------------------------
(* ProgressBarRenderer: the two get_progress_bar; percentage is a float *)

Fmt_get_progress_bar(percentage, width, fill, empty) ==
    LET filled == FloatToInt(FloatDivInt(FloatMulInt(percentage, width), 100))
    IN  Rep(fill, filled) \o Rep(empty, width - filled)

\* a slip of get_progress_bar: int(x + 0.5), rounding in place of int()
Dsk_get_progress_bar_rounded(percentage, width) ==
    LET x == FloatDivInt(FloatMulInt(percentage, width), 100)
        twice == FloatFloorAbs([x EXCEPT !.e = x.e + 1])
        filled == IF x.neg THEN -((twice + 1) \div 2) ELSE (twice + 1) \div 2
    IN  Rep(PROGRESS_BAR_FILLED, filled) \o Rep(PROGRESS_BAR_EMPTY, width - filled)

Dsk_get_progress_bar(percentage, width) ==
    LET filled == FloatToInt(FloatDivInt(FloatMulInt(percentage, width), 100))
    IN  Rep(PROGRESS_BAR_FILLED, filled) \o Rep(PROGRESS_BAR_EMPTY, width - filled)

----------------------------------------------------------------------------
(* SizeFormatter: format_size and format_size_simple.  The running value  *)
(* size_bytes is [m, e], m * 1024^e; dividing by 1024.0 lowers e by one.  *)

UNIT_B == <<66>>
UNIT_KB == <<75, 66>>
UNIT_MB == <<77, 66>>
UNIT_GB == <<71, 66>>
UNIT_TB == <<84, 66>>
UNIT_PB == <<80, 66>>

\* the list the two loops run over:  ['B', 'KB', 'MB', 'GB', 'TB']
LoopUnits == <<UNIT_B, UNIT_KB, UNIT_MB, UNIT_GB, UNIT_TB>>

\* a slip of the loop test:  size_bytes <= 1024.0
Lt1024_inclusive(v) ==
    IF v.m = 0 THEN TRUE
    ELSE IF v.e >= 1 THEN v.m = 1 /\ v.e = 1
    ELSE IF 1 - v.e >= 3 THEN TRUE
    ELSE v.m <= Pow(1024, 1 - v.e)

\* size_bytes < 1024.0   (m < 2^30, so a divisor of 1024^3 or more decides it)
Lt1024(v) ==
    IF v.m = 0 THEN TRUE
    ELSE IF v.e >= 1 THEN FALSE
    ELSE IF 1 - v.e >= 3 THEN TRUE
    ELSE v.m < Pow(1024, 1 - v.e)

\* the integer m * 1024^e (e >= 0)
IntValue(v) == IF v.m = 0 THEN 0 ELSE v.m * Pow(1024, v.e)

\* size_bytes /= 1024.0
Div1024(v) == [m |-> v.m, e |-> v.e - 1]

\* f"{size_bytes:.{precision}f}"
FormatFixed(v, precision) ==
    LET frac(h) == IF precision > 0
                   THEN <<46>> \o PadDigits(h, precision)
                   ELSE <<>>
    IN  IF v.e >= 0
        THEN Digits(IntValue(v)) \o frac(0)
        ELSE LET h == RoundHalfEven(v.m * Pow(10, precision), Pow(1024, -v.e))
                 s == Pow(10, precision)
             IN  Digits(h \div s) \o frac(h % s)

\* f"{int(round(size_bytes))}"
FormatRounded(v) ==
    IF v.e >= 0
    THEN Digits(IntValue(v))
    ELSE Digits(RoundHalfEven(v.m, Pow(1024, -v.e)))

RECURSIVE FormatSizeLoop(_, _, _)
\* the for loop of format_size from the i-th unit on, and the return after it
FormatSizeLoop(v, i, precision) ==
    IF i > Len(LoopUnits)
    THEN FormatFixed(v, precision) \o <<SPACE>> \o UNIT_PB
    ELSE IF Lt1024(v)
    THEN FormatFixed(v, precision) \o <<SPACE>> \o LoopUnits[i]
    ELSE FormatSizeLoop(Div1024(v), i + 1, precision)

format_size(size_bytes, precision) == FormatSizeLoop(size_bytes, 1, precision)

RECURSIVE FormatSizeSimpleLoop(_, _)
\* the for loop of format_size_simple from the i-th unit on, and the return after it
FormatSizeSimpleLoop(v, i) ==
    IF i > Len(LoopUnits)
    THEN FormatRounded(v) \o <<SPACE>> \o UNIT_PB
    ELSE IF Lt1024(v)
    THEN FormatRounded(v) \o <<SPACE>> \o LoopUnits[i]
    ELSE FormatSizeSimpleLoop(Div1024(v), i + 1)

format_size_simple(size_bytes) == FormatSizeSimpleLoop(size_bytes, 1)

----------------------------------------------------------------------------
(* dsk.py: the volume report *)

\* os.get_terminal_size().columns, DEFAULT_CONSOLE_WIDTH when it raises
ConsoleWidth(t) == IF t.ok THEN t.columns ELSE DEFAULT_CONSOLE_WIDTH

\* a slip of bytes_to_gb: the hundredths are cut off, not rounded
bytes_to_gb_truncated(bytes_val) ==
    IF bytes_val.e >= 3
    THEN bytes_val.m * Pow(1024, bytes_val.e - 3) * 100
    ELSE (bytes_val.m * 100) \div Pow(1024, 3 - bytes_val.e)

\* round(bytes_val / (1024 ** 3), 2), as a count of hundredths of a GB
bytes_to_gb(bytes_val) ==
    IF bytes_val.e >= 3
    THEN bytes_val.m * Pow(1024, bytes_val.e - 3) * 100
    ELSE RoundHalfEven(bytes_val.m * 100, Pow(1024, 3 - bytes_val.e))

\* f"{gb:.2f}".rjust(8)
GbStr(gb) == RJust(Digits(gb \div 100) \o <<46>> \o PadDigits(gb % 100, 2), 8)

TXT_DRIVE == <<68, 114, 105, 118, 101, 32>>                   \* "Drive "
TXT_MID == <<9500, 9472>>                                     \* the mid branch
TXT_END == <<9492, 9472>>                                     \* the end branch
TXT_TOTAL == <<32, 32, 84, 111, 116, 97, 108, 58, 32>>        \* "  Total: "
TXT_USED == <<32, 32, 32, 85, 115, 101, 100, 58, 32>>         \* "   Used: "
TXT_FREE == <<32, 32, 32, 70, 114, 101, 101, 58, 32>>         \* "   Free: "
TXT_GB == <<32, 71, 66>>                                      \* " GB"
\* "Unable to access drive "
TXT_UNABLE == <<85, 110, 97, 98, 108, 101, 32, 116, 111, 32, 97, 99, 99, 101,
                115, 115, 32, 100, 114, 105, 118, 101, 32>>

\* a slip of the cutoffs: exclusive comparisons
TierColor_exclusive(used_percent) ==
    LET x == used_percent
        HasFraction == x.e < 0 /\ BigShl(BigShr(x.m, -x.e), -x.e) # x.m
        Gt(k) == /\ ~x.neg
                 /\ \/ FloatFloorAbs(x) > k
                    \/ FloatFloorAbs(x) = k /\ HasFraction
    IN  IF Gt(CRITICAL_THRESHOLD) THEN ForeRED
        ELSE IF Gt(WARNING_THRESHOLD) THEN ForeYELLOW
        ELSE ForeGREEN

\* the colour picked at dsk.py:340-345 for the float used_percent
TierColor(used_percent) ==
    IF FloatGeqInt(used_percent, CRITICAL_THRESHOLD) THEN ForeRED
    ELSE IF FloatGeqInt(used_percent, WARNING_THRESHOLD) THEN ForeYELLOW
    ELSE ForeGREEN

\* dsk.py:337-374, the statements after used_percent is computed
DriveInfoLines(drive, usage, t) ==
    LET total_gb == bytes_to_gb([m |-> usage.total, e |-> usage.e])
        used_gb == bytes_to_gb([m |-> usage.used, e |-> usage.e])
        free_gb == bytes_to_gb([m |-> usage.free, e |-> usage.e])
        used_percent == FloatMulInt(FloatDivInts(usage.used, usage.total), 100)
        progress == Dsk_get_progress_bar(used_percent, 20)
        color == TierColor(used_percent)
        console_width == ConsoleWidth(t)
        drive_line == ForeCYAN \o TXT_DRIVE \o drive \o StyleRESET_ALL
        total_line == ForeLIGHTRED \o TXT_MID \o ForeRESET \o TXT_TOTAL
                      \o ForeBLUE \o GbStr(total_gb) \o TXT_GB \o StyleRESET_ALL
        used_line == ForeLIGHTRED \o TXT_MID \o ForeRESET \o TXT_USED
                     \o ForeYELLOW \o GbStr(used_gb) \o TXT_GB \o StyleRESET_ALL
        free_line == ForeLIGHTRED \o TXT_END \o ForeRESET \o TXT_FREE
                     \o ForeGREEN \o GbStr(free_gb) \o TXT_GB \o StyleRESET_ALL
        padding == (console_width - Dsk_get_visible_length(total_line)) \div 2
        left_padding == Rep(SPACE, padding)
    IN  << Dsk_center_with_ansi(drive_line, console_width),
           left_padding \o total_line,
           left_padding \o used_line,
           left_padding \o free_line,
           Dsk_center_with_ansi(color \o progress \o StyleRESET_ALL, console_width) >>

\* the try block of format_drive_info: what it returns, or the exception it
\* raises, with whether the local console_width was bound (dsk.py:349-351) by then
DriveInfoTry(drive, usage, t) ==
    IF ~usage.ok
    THEN [kind |-> "raise", exc |-> "OSError", width_bound |-> FALSE]
    ELSE IF usage.total = 0
    THEN [kind |-> "raise", exc |-> "ZeroDivisionError", width_bound |-> FALSE]
    ELSE [kind |-> "return", lines |-> DriveInfoLines(drive, usage, t)]

\* the bare except of format_drive_info (dsk.py:377-379): it reads the local
\* console_width, which is UnboundLocalError when the try block had not bound it
DriveInfoExcept(drive, t, width_bound) ==
    IF width_bound
    THEN [kind |-> "return",
          lines |-> << Dsk_center_with_ansi(
                         ForeRED \o TXT_UNABLE \o drive \o StyleRESET_ALL,
                         ConsoleWidth(t)) >>]
    ELSE [kind |-> "raise", exc |-> "UnboundLocalError"]

format_drive_info(drive, usage, t) ==
    LET r == DriveInfoTry(drive, usage, t)
    IN  IF r.kind = "return" THEN r ELSE DriveInfoExcept(drive, t, r.width_bound)

----------------------------------------------------------------------------
(* formatting_utils.py and recycle.py: the trash report.  A printed text is *)
(* the argument of one print call; 10 is the line break.                    *)

NEWLINE == 10
SUCCESS_COLOR == Sgr(92)
ERROR_COLOR == Sgr(91)
INFO_COLOR == Sgr(96)
ACCENT_COLOR == Sgr(94)

\* ConsoleFormatter.get_console_width: shutil.get_terminal_size().columns,
\* 80 when the terminal cannot be queried
get_console_width(t) == IF t.ok THEN t.columns ELSE 80

\* ConsoleFormatter.create_tree_line
create_tree_line(text, line_type) ==
    LET symbol == IF line_type = "last" THEN TXT_END ELSE TXT_MID
    IN  ERROR_COLOR \o symbol \o StyleRESET_ALL \o <<SPACE>> \o text

\* ConsoleFormatter.format_header_footer with border_char "=": <<header, footer>>
format_header_footer(title, t) ==
    LET width == get_console_width(t)
        border == Rep(61, width)
        header == border \o <<NEWLINE>> \o Fmt_center_with_ansi(title, width)
                  \o <<NEWLINE>> \o border
    IN  <<header, border>>

\* "=== Recycle Bin Information ==="
TXT_TRASH_TITLE == <<61, 61, 61, 32, 82, 101, 99, 121, 99, 108, 101, 32, 66, 105,
                     110, 32, 73, 110, 102, 111, 114, 109, 97, 116, 105, 111,
                     110, 32, 61, 61, 61>>
TXT_RECYCLE_BIN == <<82, 101, 99, 121, 99, 108, 101, 32, 66, 105, 110>>
TXT_ITEMS == <<73, 116, 101, 109, 115, 58, 32, 32, 32, 32>>     \* "Items:    "
TXT_SIZE == <<83, 105, 122, 101, 58, 32, 32, 32, 32, 32>>       \* "Size:     "
\* "Error getting recycle bin information: "
TXT_INFO_ERROR == <<69, 114, 114, 111, 114, 32, 103, 101, 116, 116, 105, 110, 103,
                    32, 114, 101, 99, 121, 99, 108, 101, 32, 98, 105, 110, 32,
                    105, 110, 102, 111, 114, 109, 97, 116, 105, 111, 110, 58, 32>>
\* "Access denied to recycle bin"
TXT_DENIED == <<65, 99, 99, 101, 115, 115, 32, 100, 101, 110, 105, 101, 100, 32,
                116, 111, 32, 114, 101, 99, 121, 99, 108, 101, 32, 98, 105, 110>>
\* "Error accessing recycle bin: "
TXT_ACCESS_ERROR == <<69, 114, 114, 111, 114, 32, 97, 99, 99, 101, 115, 115, 105,
                      110, 103, 32, 114, 101, 99, 121, 99, 108, 101, 32, 98, 105,
                      110, 58, 32>>
\* "Unsupported operating system: "
TXT_UNSUPPORTED == <<85, 110, 115, 117, 112, 112, 111, 114, 116, 101, 100, 32, 111,
                     112, 101, 114, 97, 116, 105, 110, 103, 32, 115, 121, 115,
                     116, 101, 109, 58, 32>>

\* get_system_type() as text
SystemText(system) ==
    CASE system = "windows" -> <<119, 105, 110, 100, 111, 119, 115>>
      [] system = "macos" -> <<109, 97, 99, 111, 115>>
      [] system = "linux" -> <<108, 105, 110, 117, 120>>
      [] OTHER -> <<102, 114, 101, 101, 98, 115, 100>>

Raise(exc, msg) == [kind |-> "raise", exc |-> exc, msg |-> msg]

\* get_recycle_bin_size: walk is what scanning the trash folders gives, the
\* bytes and items found or the exception of the file system
get_recycle_bin_size(system, walk) ==
    LET inner == IF system \in {"windows", "macos", "linux"}
                 THEN walk
                 ELSE Raise("RuntimeError", TXT_UNSUPPORTED \o SystemText(system))
    IN  IF inner.kind = "ok"
        THEN [kind |-> "return",
              size_mb |-> Div1024(Div1024(inner.total)),
              count |-> inner.count]
        ELSE IF inner.exc = "PermissionError"
        THEN Raise("OSError", TXT_DENIED)
        ELSE Raise("RuntimeError", TXT_ACCESS_ERROR \o inner.msg)

\* size_mb * BYTES_TO_MB
MbToBytes(size_mb) == [m |-> size_mb.m, e |-> size_mb.e + 2]

\* max(items_line, size_line, key=get_visible_length): the first of the widest
MaxByVisibleLength(a, b) ==
    IF Fmt_get_visible_length(b) > Fmt_get_visible_length(a) THEN b ELSE a

\* display_recycle_info: the texts it prints, in order
display_recycle_info(system, walk, t) ==
    LET r == get_recycle_bin_size(system, walk)
    IN  IF r.kind = "raise"
        THEN << <<NEWLINE>> \o ERROR_COLOR \o TXT_INFO_ERROR \o r.msg >>
        ELSE
        LET hf == format_header_footer(TXT_TRASH_TITLE, t)
            header == hf[1]
            footer == hf[2]
            width == get_console_width(t)
            size_bytes == MbToBytes(r.size_mb)
            drive_line == INFO_COLOR \o TXT_RECYCLE_BIN \o StyleRESET_ALL
            items_line == create_tree_line(
                TXT_ITEMS \o ACCENT_COLOR \o Digits(r.count) \o StyleRESET_ALL,
                "first")
            size_line == create_tree_line(
                TXT_SIZE \o SUCCESS_COLOR \o format_size_simple(size_bytes)
                    \o StyleRESET_ALL,
                "last")
            console_width == get_console_width(t)
            max_line == MaxByVisibleLength(items_line, size_line)
            padding == (console_width - Fmt_get_visible_length(max_line)) \div 2
            left_padding == Rep(SPACE, padding)
        IN  << <<NEWLINE>> \o Fmt_center_with_ansi(header, width) \o <<NEWLINE>>,
               Fmt_center_with_ansi(drive_line, width),
               left_padding \o items_line,
               left_padding \o size_line,
               <<NEWLINE>> \o Fmt_center_with_ansi(footer, width) \o <<NEWLINE>> >>

----------------------------------------------------------------------------
(* recycle.py: emptying the trash *)

\* "Successfully emptied the recycle bin"
TXT_EMPTIED == <<83, 117, 99, 99, 101, 115, 115, 102, 117, 108, 108, 121,
                 32, 101, 109, 112, 116, 105, 101, 100, 32, 116, 104, 101,
                 32, 114, 101, 99, 121, 99, 108, 101, 32, 98, 105, 110>>
\* "Error: Access denied to recycle bin"
TXT_EMPTY_DENIED == <<69, 114, 114, 111, 114, 58, 32, 65, 99, 99, 101, 115,
                      115, 32, 100, 101, 110, 105, 101, 100, 32, 116, 111,
                      32, 114, 101, 99, 121, 99, 108, 101, 32, 98, 105, 110>>
\* "Error emptying recycle bin: "
TXT_EMPTY_ERROR == <<69, 114, 114, 111, 114, 32, 101, 109, 112, 116, 121,
                     105, 110, 103, 32, 114, 101, 99, 121, 99, 108, 101, 32,
                     98, 105, 110, 58, 32>>
\* "Failed to empty recycle bin: "
TXT_FAILED == <<70, 97, 105, 108, 101, 100, 32, 116, 111, 32, 101, 109, 112,
                116, 121, 32, 114, 101, 99, 121, 99, 108, 101, 32, 98, 105,
                110, 58, 32>>
\* "An unexpected error occurred: "
TXT_UNEXPECTED == <<65, 110, 32, 117, 110, 101, 120, 112, 101, 99, 116, 101,
                    100, 32, 101, 114, 114, 111, 114, 32, 111, 99, 99, 117,
                    114, 114, 101, 100, 58, 32>>
\* "usage: "
TXT_HELP == <<117, 115, 97, 103, 101, 58, 32>>

\* str(n) of an integer
IntStr(n) == IF n < 0 THEN <<45>> \o Digits(-n) ELSE Digits(n)

\* the try block of empty_recycle_bin up to its print: outcome is what the
\* deletion does, "ok", an exception, or (SHEmptyRecycleBinW) a status code
EmptyTry(system, outcome) ==
    IF system = "windows"
    THEN IF outcome.kind = "status"
         THEN IF outcome.code # 0
              THEN Raise("OSError", TXT_FAILED \o IntStr(outcome.code))
              ELSE [kind |-> "ok"]
         ELSE outcome
    ELSE IF system \in {"macos", "linux"}
    THEN outcome
    ELSE Raise("RuntimeError", TXT_UNSUPPORTED \o SystemText(system))

\* a slip of empty_recycle_bin: only PermissionError is handled, any other
\* exception leaves the function
empty_recycle_bin_uncaught(system, outcome) ==
    LET r == EmptyTry(system, outcome)
    IN  IF r.kind = "ok"
        THEN [kind |-> "return", value |-> TRUE,
              printed |-> << <<NEWLINE>> \o SUCCESS_COLOR \o TXT_EMPTIED >>]
        ELSE IF r.exc = "PermissionError"
        THEN [kind |-> "return", value |-> FALSE,
              printed |-> << <<NEWLINE>> \o ERROR_COLOR \o TXT_EMPTY_DENIED >>]
        ELSE r

\* empty_recycle_bin: what it returns and what it prints
empty_recycle_bin(system, outcome) ==
    LET r == EmptyTry(system, outcome)
    IN  IF r.kind = "ok"
        THEN [kind |-> "return", value |-> TRUE,
              printed |-> << <<NEWLINE>> \o SUCCESS_COLOR \o TXT_EMPTIED >>]
        ELSE IF r.exc = "PermissionError"
        THEN [kind |-> "return", value |-> FALSE,
              printed |-> << <<NEWLINE>> \o ERROR_COLOR \o TXT_EMPTY_DENIED >>]
        ELSE [kind |-> "return", value |-> FALSE,
              printed |-> << <<NEWLINE>> \o ERROR_COLOR \o TXT_EMPTY_ERROR \o r.msg >>]

\* a slip of display_recycle_info: without its try, a failure of
\* get_recycle_bin_size leaves the function
DisplayResult_uncaught(system, walk, t) ==
    LET r == get_recycle_bin_size(system, walk)
    IN  IF r.kind = "raise" THEN r
        ELSE [kind |-> "return", printed |-> display_recycle_info(system, walk, t)]

\* display_recycle_info as main calls it: it returns None, having printed
DisplayResult(system, walk, t) ==
    [kind |-> "return", printed |-> display_recycle_info(system, walk, t)]

----------------------------------------------------------------------------
(* Inputs *)

\* ESC [ 3 ; m H x and the space
Alphabet == {27, 91, 51, 59, 109, 72, 120, 32}

\* ESC[31m HI ESC[0m (spec.md section 8), and a cursor code before text
SampleStrings ==
    { ForeRED \o <<72, 73>> \o StyleRESET_ALL,
      <<27, 91, 50, 74>> \o <<72, 73>>,
      <<72, 73>> \o <<27, 91, 51, 49>> }

MeasureInputs == SeqsUpTo(Alphabet, MaxStrLen) \cup SampleStrings

CenterInputs == SeqsUpTo(Alphabet, MaxCenterLen) \cup SampleStrings

Impls == {"ConsoleFormatter", "dsk"}

\* dyadic denominators: such percentages are exact floats
PctDens == {1, 2, 4}

Mantissas == {0, 1, 512, 1000, 1023, 1024, 1025, 1152, 1536, 2047,
              2560, 1048575, 1048576, 1572864}

\* m * 1024^e, with the scaled values within TLC's integers
ByteInputs ==
    {[m |-> m, e |-> e] : m \in {x \in Mantissas : x < 2048}, e \in 0..MaxExp}
    \cup {[m |-> m, e |-> 0] : m \in Mantissas}

ROOT == <<47>>                               \* "/"

LetterVolumes == {<<67, 58>>, <<68, 58>>, <<69, 58>>}    \* "C:", "D:" and "E:"

Volumes == LetterVolumes \cup {ROOT}

\* what shutil.disk_usage gives: total, used and free are m * 1024^e bytes
Usage(e, total, used, free) ==
    [ok |-> TRUE, e |-> e, total |-> total, used |-> used, free |-> free]

UsageFail == [ok |-> FALSE]

UsageSamples ==
    { Usage(3, 500, 250, 250), Usage(3, 10, 7, 3), Usage(3, 10, 9, 1),
      Usage(3, 1000, 699, 301), Usage(3, 1000, 899, 101), Usage(3, 10, 10, 0),
      Usage(4, 2, 1, 1), Usage(2, 512, 100, 412), Usage(0, 0, 0, 0),
      Usage(4, 200, 100, 100), Usage(3, 100000, 1, 99999),
      Usage(3, 1, 0, 1000000), Usage(3, 20, 23, 0) }

UsageOutcomes == UsageSamples \cup {UsageFail}

\* the str() of a file system exception other than PermissionError:
\* "[Errno 5] Input/output error"
FAULT_TEXT == <<91, 69, 114, 114, 110, 111, 32, 53, 93, 32, 73, 110, 112, 117, 116,
                47, 111, 117, 116, 112, 117, 116, 32, 101, 114, 114, 111, 114>>

\* the str() of a PermissionError: "[Errno 13] Permission denied"
DENIED_FAULT_TEXT == <<91, 69, 114, 114, 110, 111, 32, 49, 51, 93, 32, 80, 101, 114, 109, 105, 115, 115, 105, 111, 110,
                       32, 100, 101, 110, 105, 101, 100>>

Systems == {"windows", "macos", "linux", "freebsd"}

TrashFound(total, count) == [kind |-> "ok", total |-> total, count |-> count]

\* what scanning the trash gives
WalkOutcomes ==
    {TrashFound(b, c) :
        b \in {[m |-> 0, e |-> 0], [m |-> 1536, e |-> 0], [m |-> 1048575, e |-> 0],
               [m |-> 5, e |-> 2], [m |-> 1, e |-> 3], [m |-> 1024, e |-> 6]},
        c \in {0, 7, 1234567, 2000000000}}
    \cup {Raise("PermissionError", DENIED_FAULT_TEXT), Raise("OSError", FAULT_TEXT)}

\* E_UNEXPECTED, the status of SHEmptyRecycleBinW for a bin that is empty
E_UNEXPECTED == -2147418113

\* what deleting the contents of the trash gives; a status is what the
\* Windows call returns
EmptyOutcomes ==
    {[kind |-> "ok"], [kind |-> "status", code |-> 0],
     [kind |-> "status", code |-> E_UNEXPECTED],
     Raise("PermissionError", DENIED_FAULT_TEXT), Raise("OSError", FAULT_TEXT)}

Terminals == {[ok |-> FALSE]} \cup {[ok |-> TRUE, columns |-> w] : w \in {20, 40, 80}}

----------------------------------------------------------------------------
(* The library calls, one action per function; a behaviour makes one call *)

NoCall == [fn |-> "none"]

NoHost == [windows |-> FALSE, present |-> {ROOT}, cwd |-> ROOT,
           need_conversion |-> FALSE]

MainIdle ==
    /\ disk = [v \in Volumes |-> UsageFail]
    /\ term = [ok |-> FALSE]
    /\ argv = [all |-> FALSE, unknown |-> <<>>]
    /\ host = NoHost
    /\ drives = <<>>
    /\ pc = "idle"
    /\ idx = 1
    /\ out = <<>>
    /\ rendered = <<>>

MainVars == <<disk, term, argv, host, drives, pc, idx, out, rendered>>

NoArgs == [e |-> FALSE, i |-> FALSE]

NoTrash == [system |-> "linux", walk |-> TrashFound([m |-> 0, e |-> 0], 0),
            empty |-> [kind |-> "ok"], term |-> [ok |-> FALSE]]

TrashIdle ==
    /\ args = NoArgs
    /\ trash = NoTrash
    /\ rpc = "idle"
    /\ printed = <<>>
    /\ calls = <<>>

TrashVars == <<args, trash, rpc, printed, calls>>

CallGetVisibleLength ==
    /\ call = NoCall
    /\ \E impl \in Impls, s \in MeasureInputs :
            /\ call' = [fn |-> "get_visible_length", impl |-> impl, text |-> s,
                        ret |-> IF impl = "dsk" THEN Dsk_get_visible_length(s)
                                ELSE Fmt_get_visible_length(s)]
            /\ UNCHANGED <<MainVars, TrashVars>>

CallCenterWithAnsi ==
    /\ call = NoCall
    /\ \E impl \in Impls, s \in CenterInputs, w \in (-2)..MaxCenterWidth :
            /\ call' = [fn |-> "center_with_ansi", impl |-> impl, text |-> s,
                        width |-> w,
                        ret |-> IF impl = "dsk" THEN Dsk_center_with_ansi(s, w)
                                ELSE Fmt_center_with_ansi(s, w)]
            /\ UNCHANGED <<MainVars, TrashVars>>

CallGetProgressBar ==
    /\ call = NoCall
    /\ \E impl \in Impls, d \in PctDens, w \in 0..MaxBarWidth :
            \E n \in (-MaxOver * d)..((100 + MaxOver) * d) :
                LET p == [n |-> n, d |-> d]
                IN  /\ call' = [fn |-> "get_progress_bar", impl |-> impl,
                                percentage |-> p, width |-> w,
                                ret |-> IF impl = "dsk"
                                        THEN Dsk_get_progress_bar(FloatFromDyadic(n, d), w)
                                        ELSE Fmt_get_progress_bar(FloatFromDyadic(n, d), w,
                                                 PROGRESS_BAR_FILLED, PROGRESS_BAR_EMPTY)]
                    /\ UNCHANGED <<MainVars, TrashVars>>

CallFormatSize ==
    /\ call = NoCall
    /\ \E b \in ByteInputs, precision \in 0..MaxPrecision :
            /\ call' = [fn |-> "format_size", size_bytes |-> b,
                        precision |-> precision, ret |-> format_size(b, precision)]
            /\ UNCHANGED <<MainVars, TrashVars>>

CallFormatSizeSimple ==
    /\ call = NoCall
    /\ \E b \in ByteInputs :
            /\ call' = [fn |-> "format_size_simple", size_bytes |-> b,
                        ret |-> format_size_simple(b)]
            /\ UNCHANGED <<MainVars, TrashVars>>

CallFormatDriveInfo ==
    /\ call = NoCall
    /\ \E drive \in Volumes, usage \in UsageOutcomes, t \in Terminals :
            /\ call' = [fn |-> "format_drive_info", drive |-> drive, usage |-> usage,
                        term |-> t, ret |-> format_drive_info(drive, usage, t)]
            /\ UNCHANGED <<MainVars, TrashVars>>

\* center_with_ansi applied to its own result, with the same width
CallCenterTwice ==
    /\ call = NoCall
    /\ \E impl \in Impls, s \in CenterInputs, w \in (-2)..MaxCenterWidth :
            LET once == IF impl = "dsk" THEN Dsk_center_with_ansi(s, w)
                        ELSE Fmt_center_with_ansi(s, w)
            IN  /\ call' = [fn |-> "center_twice", impl |-> impl, text |-> s,
                            width |-> w, once |-> once,
                            ret |-> IF impl = "dsk"
                                    THEN Dsk_center_with_ansi(once, w)
                                    ELSE Fmt_center_with_ansi(once, w)]
                /\ UNCHANGED <<MainVars, TrashVars>>

CallDisplayRecycleInfo ==
    /\ call = NoCall
    /\ \E system \in Systems, walk \in WalkOutcomes, t \in Terminals :
            /\ call' = [fn |-> "display_recycle_info", system |-> system,
                        walk |-> walk, term |-> t,
                        ret |-> display_recycle_info(system, walk, t)]
            /\ UNCHANGED <<MainVars, TrashVars>>

InitFmt == call = NoCall /\ MainIdle /\ TrashIdle

NextFmt ==
    \/ CallGetVisibleLength
    \/ CallCenterWithAnsi
    \/ CallCenterTwice
    \/ CallGetProgressBar
    \/ CallFormatSize
    \/ CallFormatSizeSimple
    \/ CallFormatDriveInfo
    \/ CallDisplayRecycleInfo

SpecFmt == InitFmt /\ [][NextFmt]_vars

----------------------------------------------------------------------------
(* dsk.main (dsk.py:382-456), from the result of parse_known_args on *)

\* "=== Drive Space Information ==="
HEADER == <<61, 61, 61, 32, 68, 114, 105, 118, 101, 32, 83, 112, 97, 99, 101, 32,
            73, 110, 102, 111, 114, 109, 97, 116, 105, 111, 110, 32, 61, 61, 61>>

\* print(f"\n{line}\n"): an empty line, the line, an empty line
PrintFramed(line) == << <<>>, line, <<>> >>

\* "No valid drives specified. Use: -C -D -E etc."
TXT_NO_VALID_DRIVES ==
    <<78, 111, 32, 118, 97, 108, 105, 100, 32, 100, 114, 105, 118, 101, 115, 32,
      115, 112, 101, 99, 105, 102, 105, 101, 100, 46, 32, 85, 115, 101, 58, 32,
      45, 67, 32, 45, 68, 32, 45, 69, 32, 101, 116, 99, 46>>

\* 'ABCDEFGHIJKLMNOPQRSTUVWXYZ'
DRIVE_LETTERS == [i \in 1..26 |-> 64 + i]

\* the letters of the unknown arguments that are a '-' and one character,
\* in upper case (str.upper of an ASCII character)
DriveLettersOf(unknown) ==
    LET IsDriveArg(arg) == Len(arg) = 2 /\ arg[1] = 45
        given == SelectSeq(unknown, IsDriveArg)
        upper(c) == IF c \in 97..122 THEN c - 32 ELSE c
    IN  [i \in 1..Len(given) |-> upper(given[i][2])]

\* get_drive_info() without drives: the drive of the working directory on
\* Windows, the root elsewhere
get_drive_info(h) == IF h.windows THEN <<h.cwd>> ELSE <<ROOT>>

get_all_drives(h) ==
    IF h.windows
    THEN LET all == [i \in 1..Len(DRIVE_LETTERS) |-> <<DRIVE_LETTERS[i], 58>>]
             IsThere(drive) == drive \in h.present
         IN  SelectSeq(all, IsThere)
    ELSE <<ROOT>>

\* the machines a run of main is checked on: a Windows with some of the
\* lettered drives, its working directory on the first of them, its console
\* with or without ANSI sequences of its own, and a Unix whose working
\* directory holds no entry named like a drive
Hosts ==
    {[windows |-> TRUE, present |-> p, need_conversion |-> n,
      cwd |-> CHOOSE c \in p : \A d \in p : c[1] <= d[1]] :
        p \in SUBSET LetterVolumes \ {{}}, n \in BOOLEAN}
    \cup {NoHost}

\* colorama's ANSI_CSI_RE  \001?\033\[((?:\d|;)*)([a-zA-Z])\002?  (the digits
\* are the ASCII ones here): the index of the last character of the match
\* that starts at i, 0 when there is none
CsiMatchEnd(s, i) ==
    LET b == IF i <= Len(s) /\ s[i] = 1 THEN i + 1 ELSE i
    IN  IF b + 1 <= Len(s) /\ s[b] = ESC /\ s[b + 1] = LBRACKET
        THEN LET j == SkipWhile(s, b + 2, (48..57) \cup {59})
             IN  IF j <= Len(s) /\ s[j] \in (65..90) \cup (97..122)
                 THEN IF j + 1 <= Len(s) /\ s[j + 1] = 2 THEN j + 1 ELSE j
                 ELSE 0
        ELSE 0

RECURSIVE AnsiStrip(_, _)
\* AnsiToWin32.write_and_convert from index i: the text between the matches
\* of ANSI_CSI_RE is written, the matches are not (main prints no OSC
\* sequence)
AnsiStrip(s, i) ==
    LET starts == {j \in i..Len(s) : CsiMatchEnd(s, j) > 0}
    IN  IF starts = {} THEN SubSeq(s, i, Len(s))
        ELSE LET j == CHOOSE x \in starts : \A y \in starts : x <= y
             IN  SubSeq(s, i, j - 1) \o AnsiStrip(s, CsiMatchEnd(s, j) + 1)

\* what reaches the standard output of the lines that main prints: init()
\* (dsk.py:408) has wrapped sys.stdout, and the wrapper strips the ANSI
\* sequences when the output is no terminal (os.get_terminal_size raises
\* then) or when the console of a Windows needs them converted into calls.
\* (When the process exits, the library resets the colours of a terminal it
\* strips nothing for: no line of main.)
Write(h, t, lines) ==
    IF h.need_conversion \/ ~t.ok
    THEN [i \in 1..Len(lines) |-> AnsiStrip(lines[i], 1)]
    ELSE lines

\* the arguments the parser leaves over: "-C", "-d", "-Q" and "-CD"
ArgSamples == {<<45, 67>>, <<45, 100>>, <<45, 81>>, <<45, 67, 68>>}

Init ==
    /\ call = NoCall
    /\ argv \in [all : BOOLEAN, unknown : SeqsUpTo(ArgSamples, MaxArgs)]
    /\ host \in Hosts
    /\ disk \in {d \in [Volumes -> {Usage(3, 500, 250, 250), Usage(3, 20, 23, 0),
                                      UsageFail}] :
                    \A v \in Volumes \ host.present : d[v] = UsageFail}
    /\ term \in {[ok |-> FALSE], [ok |-> TRUE, columns |-> 40]}
    /\ drives = <<>>
    /\ pc = "start"
    /\ idx = 1
    /\ out = <<>>
    /\ rendered = <<>>
    /\ TrashIdle

\* the choice of the drives (dsk.py:416-433): all of them with -all, the
\* existing ones among the letters given, else the current one; when letters
\* are given and none of them exists, main prints a hint and returns
SelectDrives ==
    /\ pc = "start"
    /\ LET drive_letters == DriveLettersOf(argv.unknown)
           named == [i \in 1..Len(drive_letters) |-> <<drive_letters[i], 58>>]
           IsThere(drive) == drive \in host.present
           existing == SelectSeq(named, IsThere)
       IN  IF argv.all
           THEN /\ drives' = get_all_drives(host)
                /\ pc' = "header"
                /\ out' = out
           ELSE IF drive_letters # <<>>
           THEN /\ drives' = existing
                /\ IF existing = <<>>
                   THEN /\ out' = out \o Write(host, term,
                                       << ForeYELLOW \o TXT_NO_VALID_DRIVES
                                              \o StyleRESET_ALL >>)
                        /\ pc' = "returned"
                   ELSE /\ out' = out
                        /\ pc' = "header"
           ELSE /\ drives' = get_drive_info(host)
                /\ pc' = "header"
                /\ out' = out
    /\ UNCHANGED <<TrashVars, call, disk, term, argv, host, idx, rendered>>

PrintHeader ==
    /\ pc = "header"
    /\ out' = out \o Write(host, term, PrintFramed(Dsk_center_with_ansi(
                  ForeCYAN \o HEADER \o StyleRESET_ALL, ConsoleWidth(term))))
    /\ pc' = "loop"
    /\ UNCHANGED <<TrashVars, call, disk, term, argv, host, drives, idx, rendered>>

\* one iteration of  for drive in drives:  an exception of format_drive_info
\* is not caught in main and ends the process (drive and drive_info are the
\* locals of the iteration)
ReportDrive ==
    /\ pc = "loop"
    /\ idx <= Len(drives)
    /\ \E drive \in {drives[idx]} :
         \E drive_info \in {format_drive_info(drive, disk[drive], term)} :
           IF drive_info.kind = "return"
           THEN /\ out' = out \o Write(host, term, drive_info.lines \o << <<>> >>)
                /\ rendered' = Append(rendered, drive)
                /\ idx' = idx + 1
                /\ pc' = pc
           ELSE /\ pc' = "crashed"
                /\ UNCHANGED <<out, rendered, idx>>
    /\ UNCHANGED <<TrashVars, call, disk, term, argv, host, drives>>

PrintFooter ==
    /\ pc = "loop"
    /\ idx > Len(drives)
    /\ out' = out \o Write(host, term, PrintFramed(Dsk_center_with_ansi(
                  ForeCYAN \o Rep(61, Len(HEADER)) \o StyleRESET_ALL,
                  ConsoleWidth(term))))
    /\ pc' = "done"
    /\ UNCHANGED <<TrashVars, call, disk, term, argv, host, drives, idx, rendered>>

Next == SelectDrives \/ PrintHeader \/ ReportDrive \/ PrintFooter

Spec == Init /\ [][Next]_vars

----------------------------------------------------------------------------
(* recycle.main: one run of the trash tool *)

\* the scans and deletions a run of main is checked with
MainWalks ==
    {TrashFound([m |-> 1536, e |-> 0], 7), TrashFound([m |-> 5, e |-> 2], 1234567),
     Raise("PermissionError", DENIED_FAULT_TEXT), Raise("OSError", FAULT_TEXT)}

InitTrash ==
    /\ call = NoCall
    /\ MainIdle
    /\ args \in [e : BOOLEAN, i : BOOLEAN]
    /\ trash \in {tr \in [system : Systems, walk : MainWalks, empty : EmptyOutcomes,
                          term : {[ok |-> FALSE], [ok |-> TRUE, columns |-> 40]}] :
                     tr.empty.kind = "status" => tr.system = "windows"}
    /\ rpc = "start"
    /\ printed = <<>>
    /\ calls = <<>>

\* if not (args.e or args.i): parser.print_help(); return
MainHelp ==
    /\ rpc = "start"
    /\ ~(args.e \/ args.i)
    /\ printed' = Append(printed, TXT_HELP)
    /\ calls' = Append(calls, [fn |-> "print_help", ret |-> "None"])
    /\ rpc' = "done"
    /\ UNCHANGED <<call, MainVars, args, trash>>

\* the handler of main: print the unexpected error, and main ends
MainExcept(e) ==
    /\ printed' = Append(printed, <<NEWLINE>> \o ERROR_COLOR \o TXT_UNEXPECTED \o e.msg)
    /\ rpc' = "done"

\* if args.i: display_recycle_info()
MainInfo ==
    /\ rpc = "start"
    /\ args.e \/ args.i
    /\ IF args.i
       THEN LET r == DisplayResult(trash.system, trash.walk, trash.term)
            IN  IF r.kind = "return"
                THEN /\ printed' = printed \o r.printed
                     /\ calls' = Append(calls, [fn |-> "display_recycle_info",
                                                ret |-> "None"])
                     /\ rpc' = "empty"
                ELSE /\ MainExcept(r)
                     /\ calls' = Append(calls, [fn |-> "display_recycle_info",
                                                ret |-> "raise"])
       ELSE /\ rpc' = "empty"
            /\ UNCHANGED <<printed, calls>>
    /\ UNCHANGED <<call, MainVars, args, trash>>

\* if args.e: empty_recycle_bin()
MainEmpty ==
    /\ rpc = "empty"
    /\ IF args.e
       THEN LET r == empty_recycle_bin(trash.system, trash.empty)
            IN  IF r.kind = "return"
                THEN /\ printed' = printed \o r.printed
                     /\ calls' = Append(calls, [fn |-> "empty_recycle_bin",
                                                ret |-> IF r.value THEN "True"
                                                        ELSE "False"])
                     /\ rpc' = "done"
                ELSE /\ MainExcept(r)
                     /\ calls' = Append(calls, [fn |-> "empty_recycle_bin",
                                                ret |-> "raise"])
       ELSE /\ rpc' = "done"
            /\ UNCHANGED <<printed, calls>>
    /\ UNCHANGED <<call, MainVars, args, trash>>

NextTrash == MainHelp \/ MainInfo \/ MainEmpty

SpecTrash == InitTrash /\ [][NextTrash]_vars

----------------------------------------------------------------------------
(* Properties.  Those about one function are stated of the call a behaviour *)
(* of SpecFmt makes; those about a run of dsk.main are stated of Spec, and  *)
(* those about a run of recycle.main of SpecTrash.                          *)

IsCall(fn) == call.fn = fn

\* the measure a call of the given implementation uses
VisibleLengthOf(impl, s) ==
    IF impl = "dsk" THEN Dsk_get_visible_length(s) ELSE Fmt_get_visible_length(s)

\* the line a failure report consists of, as section 4.6 of the spec has it:
\* the red message naming the drive, centred in the console width
ErrorLine(drive, t) ==
    LET msg == ForeRED \o TXT_UNABLE \o drive \o StyleRESET_ALL
        vis == Len(TXT_UNABLE) + Len(drive)
    IN  Rep(SPACE, Max(0, (ConsoleWidth(t) - vis) \div 2)) \o msg

\* C1: when the disk-usage query of a volume fails, format_drive_info does
\* not raise and returns exactly one line, the centred error message naming
\* the volume.
C1_FailureIsOneErrorLine ==
    (IsCall("format_drive_info") /\ ~call.usage.ok)
        => /\ call.ret.kind = "return"
           /\ call.ret.lines = << ErrorLine(call.drive, call.term) >>

\* C2: a run of dsk.main never ends in an uncaught exception, the blocks
\* printed are those of a prefix of the drives in their input order, and when
\* main has ended the footer was reached with one block per drive.
C2_EveryVolumeRendered ==
    /\ pc # "crashed"
    /\ Len(rendered) <= Len(drives)
    /\ rendered = SubSeq(drives, 1, Len(rendered))
    /\ (pc = "done" => rendered = drives)

\* the first character of a line after its left padding
FirstInk(line) == SkipWhile(line, 1, {SPACE})

\* the colour code the progress bar line starts with
BarColor(line) == SubSeq(line, FirstInk(line), FirstInk(line) + 4)

\* the glyphs of the progress bar line
BarGlyphs(line) == SelectSeq(line, LAMBDA c : c \in {PROGRESS_BAR_FILLED, PROGRESS_BAR_EMPTY})

\* C3: for a volume whose usage query succeeds with total = 0 the report does
\* not raise: it is the five-line success block, its bar green (tier Normal)
\* with 0 filled glyphs out of 20.
C3_ZeroTotalIsRendered ==
    (IsCall("format_drive_info") /\ call.usage.ok /\ call.usage.total = 0)
        => /\ call.ret.kind = "return"
           /\ Len(call.ret.lines) = 5
           /\ BarColor(call.ret.lines[5]) = ForeGREEN
           /\ BarGlyphs(call.ret.lines[5]) = Rep(PROGRESS_BAR_EMPTY, 20)

\* the number of filled glyphs of a bar
FilledCount(bar) == Len(SelectSeq(bar, LAMBDA c : c = PROGRESS_BAR_FILLED))

\* C4: for every percentage, below 0 and above 100 included, and every
\* width >= 0, the bar of get_progress_bar has exactly width glyphs, of which
\* between 0 and width are filled.
C4_BarHasWidthGlyphs ==
    IsCall("get_progress_bar")
        => /\ Len(call.ret) = call.width
           /\ FilledCount(call.ret) \in 0..call.width

\* C5: for a percentage in [0, 100] and a width >= 0 the bar is
\* floor(width * percent / 100) filled glyphs followed by width - filled empty
\* ones (50 at width 20: 10 + 10; 100 at width 20: 20 + 0).
C5_FilledIsFloor ==
    (/\ IsCall("get_progress_bar")
     /\ call.percentage.n >= 0
     /\ call.percentage.n <= 100 * call.percentage.d)
        => LET filled == (call.width * call.percentage.n)
                             \div (100 * call.percentage.d)
           IN  /\ call.ret = Rep(PROGRESS_BAR_FILLED, filled)
                               \o Rep(PROGRESS_BAR_EMPTY, call.width - filled)
               /\ (call.percentage.n = 50 * call.percentage.d /\ call.width = 20
                      => FilledCount(call.ret) = 10)
               /\ (call.percentage.n = 100 * call.percentage.d /\ call.width = 20
                      => call.ret = Rep(PROGRESS_BAR_FILLED, 20))

C5_Witness ==
    /\ IsCall("get_progress_bar")
    /\ call.percentage = [n |-> 33, d |-> 1]
    /\ call.width = 20
    /\ call.ret = Rep(PROGRESS_BAR_FILLED, 6) \o Rep(PROGRESS_BAR_EMPTY, 14)

\* C6: the colour of a volume's progress bar depends on used_percent =
\* used / total * 100 alone, with inclusive lower cutoffs: red from 90.0 on,
\* yellow from 70.0 up to 90.0, green below 70.0.
C6_TierCutoffs ==
    (IsCall("format_drive_info") /\ call.ret.kind = "return")
        => LET used == call.usage.used
               total == call.usage.total
               color == BarColor(call.ret.lines[5])
           IN  /\ (used * 100 >= 90 * total) => color = ForeRED
               /\ (used * 100 >= 70 * total /\ used * 100 < 90 * total)
                      => color = ForeYELLOW
               /\ (used * 100 < 70 * total) => color = ForeGREEN

C6_Witness ==
    /\ IsCall("format_drive_info")
    /\ call.ret.kind = "return"
    /\ call.usage.used * 100 = 90 * call.usage.total
    /\ BarColor(call.ret.lines[5]) = ForeRED

\* the byte count m * 1024^e is below 1024^j
BelowPow1024(b, j) ==
    IF b.m = 0 THEN TRUE
    ELSE IF b.e >= j THEN FALSE
    ELSE IF j - b.e >= 3 THEN TRUE
    ELSE b.m < Pow(1024, j - b.e)

AllUnits == <<UNIT_B, UNIT_KB, UNIT_MB, UNIT_GB, UNIT_TB, UNIT_PB>>

\* the smallest k in 0..5 with bytes / 1024^k < 1024, and 5 when there is none
ClaimedUnitIndex(b) ==
    IF \E k \in 0..5 : BelowPow1024(b, k + 1)
    THEN CHOOSE k \in 0..5 :
             /\ BelowPow1024(b, k + 1)
             /\ \A j \in 0..(k - 1) : ~BelowPow1024(b, j + 1)
    ELSE 5

\* s is "<number> <unit>": digits with at most one point, one space, the unit
IsNumberSpaceUnit(s, unit) ==
    LET n == Len(s) - Len(unit) - 1
    IN  /\ n >= 1
        /\ SubSeq(s, n + 2, Len(s)) = unit
        /\ s[n + 1] = SPACE
        /\ \A i \in 1..n : s[i] \in (48..57) \cup {46}
        /\ Cardinality({i \in 1..n : s[i] = 46}) <= 1

\* C7: format_size and format_size_simple pick the unit at the smallest index
\* k of (B, KB, MB, GB, TB, PB) with bytes / 1024^k < 1024, PB for 1024^6
\* bytes or more, and return "<number> <unit>" with exactly one space
\* (0: "0.00 B" and "0 B"; 1073741824: "1.00 GB"; 1536 rounded: "2 KB").
C7_UnitSelection ==
    (IsCall("format_size") \/ IsCall("format_size_simple"))
        => LET b == call.size_bytes
           IN  /\ IsNumberSpaceUnit(call.ret, AllUnits[ClaimedUnitIndex(b) + 1])
               /\ (b.m >= 1 /\ b.e >= 6
                      => SubSeq(call.ret, Len(call.ret) - 2, Len(call.ret))
                             = <<SPACE>> \o UNIT_PB)
               /\ (IsCall("format_size") /\ call.precision = 2 /\ b.m = 0
                      => call.ret = <<48, 46, 48, 48, 32, 66>>)
               /\ (IsCall("format_size_simple") /\ b.m = 0
                      => call.ret = <<48, 32, 66>>)
               /\ (IsCall("format_size") /\ call.precision = 2
                      /\ b \in {[m |-> 1, e |-> 3], [m |-> 1024, e |-> 2]}
                      => call.ret = <<49, 46, 48, 48, 32, 71, 66>>)
               /\ (IsCall("format_size_simple") /\ b = [m |-> 1536, e |-> 0]
                      => call.ret = <<50, 32, 75, 66>>)

\* 1024 * 1024^6 bytes come out as "1048576.00 PB"
C7_Witness ==
    /\ IsCall("format_size")
    /\ call.size_bytes = [m |-> 1024, e |-> 6]
    /\ call.precision = 2
    /\ call.ret = <<49, 48, 52, 56, 53, 55, 54, 46, 48, 48, 32, 80, 66>>

\* the last index of the complete CSI sequence  ESC [ <digits/semicolons>
\* <final byte in @..~>  that starts at i, 0 when none does
ClaimedCsiEnd(s, i) ==
    IF i + 1 <= Len(s) /\ s[i] = ESC /\ s[i + 1] = LBRACKET
    THEN LET j == SkipWhile(s, i + 2, (48..57) \cup {59})
         IN  IF j <= Len(s) /\ s[j] \in 64..126 THEN j ELSE 0
    ELSE 0

RECURSIVE ClaimedVisibleCount(_, _)
\* the number of characters of s from i on that lie outside such sequences
ClaimedVisibleCount(s, i) ==
    IF i > Len(s) THEN 0
    ELSE LET e == ClaimedCsiEnd(s, i)
         IN  IF e > 0 THEN ClaimedVisibleCount(s, e + 1)
             ELSE 1 + ClaimedVisibleCount(s, i + 1)

\* C8: get_visible_length (both versions) ignores every complete CSI sequence
\* whose final byte is anywhere in @..~: its result is the number of
\* characters outside such sequences.
C8_CsiSequencesIgnored ==
    IsCall("get_visible_length")
        => call.ret = ClaimedVisibleCount(call.text, 1)

\* t is an escape sequence cut short: ESC alone, ESC [, or ESC [ and parameters
IsIncompleteEscape(t) ==
    /\ Len(t) >= 1
    /\ t[1] = ESC
    /\ (Len(t) >= 2 => t[2] = LBRACKET)
    /\ \A j \in 3..Len(t) : t[j] \in (48..57) \cup {59}

\* C9: get_visible_length fails open: 0 for the empty string, the raw length
\* for a string without ESC, and an incomplete escape sequence at the end of
\* the string is counted character by character on top of what precedes it.
C9_FailsOpen ==
    IsCall("get_visible_length")
        => LET s == call.text
           IN  /\ (s = <<>> => call.ret = 0)
               /\ ((\A i \in 1..Len(s) : s[i] # ESC) => call.ret = Len(s))
               /\ \A i \in 1..Len(s) :
                      IsIncompleteEscape(SubSeq(s, i, Len(s)))
                          => call.ret = VisibleLengthOf(call.impl, SubSeq(s, 1, i - 1))
                                            + (Len(s) - i + 1)

\* "HI" followed by ESC [ 3 1 measures 6
C9_Witness ==
    /\ IsCall("get_visible_length")
    /\ call.text = <<72, 73, 27, 91, 51, 49>>
    /\ call.ret = 6

\* C10: center_with_ansi returns max(0, (width - visible_length) / 2) spaces,
\* the division truncating, followed by the text and nothing after it; the
\* text comes back unchanged when its visible length is width or more.  The
\* visible length is that of the implementation's own get_visible_length.
C10_LeftPadOnly ==
    IsCall("center_with_ansi")
        => LET vis == VisibleLengthOf(call.impl, call.text)
           IN  /\ call.ret = Rep(SPACE, Max(0, Trunc(call.width - vis, 2)))
                                 \o call.text
               /\ (vis >= call.width => call.ret = call.text)

\* the red "HI" is centred in 8 columns by 3 spaces
C10_Witness ==
    /\ IsCall("center_with_ansi")
    /\ call.text = ForeRED \o <<72, 73>> \o StyleRESET_ALL
    /\ call.width = 8
    /\ call.ret = <<32, 32, 32>> \o call.text

\* C11 as claimed: centering the centred string again with the same width
\* gives the string centred once (the left padding does not grow).
C11_CenteringIdempotent ==
    IsCall("center_twice") => call.ret = call.once

\* C11 as amended: the second centering measures the padding of the first as
\* visible text and adds max(0, (width - visible_length - pad) div 2) spaces
\* to it; the padding is that of one centering exactly when
\* width - visible_length <= 2.
C11_CenteringAccumulates ==
    IsCall("center_twice")
        => LET vis == VisibleLengthOf(call.impl, call.text)
               pad == Max(0, (call.width - vis) \div 2)
               more == Max(0, (call.width - vis - pad) \div 2)
           IN  /\ call.once = Rep(SPACE, pad) \o call.text
               /\ call.ret = Rep(SPACE, pad + more) \o call.text
               /\ (call.ret = call.once <=> call.width - vis <= 2)

\* the red "HI" centred twice in 8 columns: 3 spaces, then 4
C11_Witness ==
    /\ IsCall("center_twice")
    /\ call.text = ForeRED \o <<72, 73>> \o StyleRESET_ALL
    /\ call.width = 8
    /\ call.once = Rep(SPACE, 3) \o call.text
    /\ call.ret = Rep(SPACE, 4) \o call.text

\* the number of spaces a line starts with
LeadingSpaces(s) == SkipWhile(s, 1, {SPACE}) - 1

\* the line without them: every tree line starts with the colour of its branch
StripLeft(s) == SubSeq(s, LeadingSpaces(s) + 1, Len(s))

\* the tree lines of the block the call returned or printed, <<>> when the
\* call did not produce a block
TreeLinesOf(c) ==
    IF c.fn = "format_drive_info" /\ c.ret.kind = "return" /\ Len(c.ret.lines) = 5
    THEN SubSeq(c.ret.lines, 2, 4)
    ELSE IF c.fn = "display_recycle_info" /\ Len(c.ret) = 5
    THEN SubSeq(c.ret, 3, 4)
    ELSE <<>>

\* the width and the measure of the tool that made the block
BlockWidthOf(c) ==
    IF c.fn = "format_drive_info" THEN ConsoleWidth(c.term)
    ELSE get_console_width(c.term)

BlockImplOf(c) == IF c.fn = "format_drive_info" THEN "dsk" ELSE "ConsoleFormatter"

\* the widest visible length of the lines without their padding
MaxVisibleOf(lines, impl) ==
    LET lens == {VisibleLengthOf(impl, StripLeft(lines[k])) : k \in 1..Len(lines)}
    IN  CHOOSE m \in lens : \A n \in lens : n <= m

\* C12: in every report block (volume: Total, Used, Free; trash: Items, Size)
\* all tree lines carry the same left padding, and it is half of the console
\* width less the visible length of the widest tree line (none when that is
\* negative), whatever the values shown.
C12_BlockPadFromWidest ==
    LET lines == TreeLinesOf(call)
    IN  lines # <<>>
            => \A k \in 1..Len(lines) :
                    LeadingSpaces(lines[k])
                        = Max(0, (BlockWidthOf(call)
                                  - MaxVisibleOf(lines, BlockImplOf(call))) \div 2)

\* the tree line of a volume block without its padding: branch, label, and
\* the value in the colour of the line
VolumeTreeLine(k, value) ==
    CASE k = 1 -> ForeLIGHTRED \o TXT_MID \o ForeRESET \o TXT_TOTAL
                  \o ForeBLUE \o value \o StyleRESET_ALL
      [] k = 2 -> ForeLIGHTRED \o TXT_MID \o ForeRESET \o TXT_USED
                  \o ForeYELLOW \o value \o StyleRESET_ALL
      [] k = 3 -> ForeLIGHTRED \o TXT_END \o ForeRESET \o TXT_FREE
                  \o ForeGREEN \o value \o StyleRESET_ALL

\* the byte count the k-th tree line is about
VolumeBytes(usage, k) ==
    [m |-> IF k = 1 THEN usage.total ELSE IF k = 2 THEN usage.used ELSE usage.free,
     e |-> usage.e]

IsVolumeReport == IsCall("format_drive_info") /\ TreeLinesOf(call) # <<>>

\* C13 as claimed: the tree lines of a volume report are Total, Used, Free
\* in that order and each shows format_size(bytes, 2) of its byte count, in the
\* unit the B/KB/MB/GB/TB/PB rule picks (right-aligned in its column).
C13_ValuesViaFormatSize ==
    IsVolumeReport
        => \A k \in 1..3 :
              \E j \in 0..8 :
                 StripLeft(TreeLinesOf(call)[k])
                    = VolumeTreeLine(k, Rep(SPACE, j)
                                        \o format_size(VolumeBytes(call.usage, k), 2))

\* h hundredths of a GB is the byte count b rounded to the nearest hundredth
IsNearestGbHundredth(h, b) ==
    IF b.e >= 3
    THEN h = 100 * b.m * Pow(1024, b.e - 3)
    ELSE LET d == Pow(1024, 3 - b.e)
             q == (100 * b.m) \div d
             r == (100 * b.m) % d
         IN  \/ h = q /\ 2 * r <= d
             \/ h = q + 1 /\ 2 * r >= d

\* b is at least 1 GB and less than 1 TB
InGbRange(b) == b.e = 3 /\ b.m >= 1 /\ b.m < 1024

\* C13 as amended: the tree lines are Total, Used, Free in that order and each
\* shows its byte count in GB whatever its size: the count divided by 1024^3,
\* rounded to two decimals, right-justified to 8 characters and followed by
\* " GB".  This is format_size(bytes, 2) exactly for counts from 1 GB up to,
\* not including, 1 TB.
C13_ValuesAlwaysInGb ==
    IsVolumeReport
        => \A k \in 1..3 :
              LET b == VolumeBytes(call.usage, k)
                  shown == StripLeft(TreeLinesOf(call)[k])
                  cands == IF b.e >= 3 THEN {100 * b.m * Pow(1024, b.e - 3)}
                           ELSE LET q == (100 * b.m) \div Pow(1024, 3 - b.e)
                                IN  {q, q + 1}
              IN  /\ \E h \in cands :
                        /\ IsNearestGbHundredth(h, b)
                        /\ shown = VolumeTreeLine(k, GbStr(h) \o TXT_GB)
                  /\ InGbRange(b)
                        => \E j \in 0..8 :
                              shown = VolumeTreeLine(k, Rep(SPACE, j) \o format_size(b, 2))

\* a 2 TB volume, half used: "2048.00 GB", "1024.00 GB", "1024.00 GB"
C13_Witness ==
    /\ IsVolumeReport
    /\ call.usage = Usage(4, 2, 1, 1)
    /\ StripLeft(TreeLinesOf(call)[1])
          = VolumeTreeLine(1, <<32, 50, 48, 52, 56, 46, 48, 48>> \o TXT_GB)
    /\ StripLeft(TreeLinesOf(call)[2])
          = VolumeTreeLine(2, <<32, 49, 48, 50, 52, 46, 48, 48>> \o TXT_GB)
    /\ format_size(VolumeBytes(call.usage, 1), 2) = <<50, 46, 48, 48, 32, 84, 66>>

\* sub occurs in s
Contains(s, sub) ==
    \E i \in 1..(Len(s) - Len(sub) + 1) : SubSeq(s, i, i + Len(sub) - 1) = sub

\* "recycle bin"
TXT_RESOURCE_TRASH == <<114, 101, 99, 121, 99, 108, 101, 32, 98, 105, 110>>

\* C14: when the data of a report cannot be acquired, what is rendered names
\* the resource and never contains the message of the underlying exception:
\* a failing volume gives lines naming the drive, a failing scan of the trash
\* gives texts naming the recycle bin without the text of the fault.
C14_NoRawFaultText ==
    /\ (IsCall("format_drive_info") /\ ~call.usage.ok)
          => /\ call.ret.kind = "return"
             /\ \E k \in 1..Len(call.ret.lines) :
                    Contains(call.ret.lines[k], call.drive)
    /\ (IsCall("display_recycle_info") /\ call.walk.kind = "raise"
            /\ call.system # "freebsd")
          => /\ \E k \in 1..Len(call.ret) : Contains(call.ret[k], TXT_RESOURCE_TRASH)
             /\ \A k \in 1..Len(call.ret) : ~Contains(call.ret[k], call.walk.msg)

\* the functions recycle.main has called so far, in order
CallNames == [k \in 1..Len(calls) |-> calls[k].fn]

\* C15: with both -e and -i, main produces the info report first and attempts
\* the empty operation after it, also when the info report failed: the calls
\* made are a prefix of <<display_recycle_info, empty_recycle_bin>> that
\* follows the position of main, and both have been made when main ends.
C15_InfoThenEmpty ==
    (args.e /\ args.i)
        => /\ rpc = "start" => CallNames = <<>>
           /\ rpc = "empty" => CallNames = <<"display_recycle_info">>
           /\ rpc = "done"
                => CallNames = <<"display_recycle_info", "empty_recycle_bin">>

\* both switches, the scan of the trash fails with an I/O error: the failure
\* is printed and the trash is emptied all the same
C15_Witness ==
    /\ rpc = "done"
    /\ args.e /\ args.i
    /\ trash.walk = Raise("OSError", FAULT_TEXT)
    /\ trash.system = "linux"
    /\ trash.empty.kind = "ok"
    /\ Len(printed) = 2
    /\ Contains(printed[1], TXT_INFO_ERROR)
    /\ Contains(printed[2], TXT_EMPTIED)
    /\ calls = << [fn |-> "display_recycle_info", ret |-> "None"],
                  [fn |-> "empty_recycle_bin", ret |-> "True"] >>

\* emptying cannot succeed in this environment
EmptyFails ==
    \/ trash.system \notin {"windows", "macos", "linux"}
    \/ trash.empty.kind = "raise"
    \/ trash.system = "windows" /\ trash.empty.kind = "status" /\ trash.empty.code # 0

\* C16: in every run of recycle.main empty_recycle_bin is called at most once
\* and only when -e was given; with -i alone only the info report runs, with
\* neither switch only the help is printed; and a failure of the emptying is
\* the result False of the call, never an exception that leaves it.
C16_EmptyOnlyOnRequest ==
    LET empties == {k \in 1..Len(calls) : calls[k].fn = "empty_recycle_bin"}
    IN  /\ Cardinality(empties) <= 1
        /\ empties # {} => args.e
        /\ (rpc = "done" /\ ~args.e /\ args.i)
              => CallNames = <<"display_recycle_info">>
        /\ (rpc = "done" /\ ~args.e /\ ~args.i)
              => CallNames = <<"print_help">> /\ printed = <<TXT_HELP>>
        /\ (rpc = "done" /\ args.e) => empties # {}
        /\ \A k \in empties :
              calls[k].ret = IF EmptyFails THEN "False" ELSE "True"
        /\ rpc \in {"start", "empty", "done"}
        /\ \A k \in 1..Len(printed) : ~Contains(printed[k], TXT_UNEXPECTED)

\* -e alone on Windows, the shell call returns E_UNEXPECTED: one call, False
C16_Witness ==
    /\ rpc = "done"
    /\ args.e /\ ~args.i
    /\ trash.system = "windows"
    /\ trash.empty = [kind |-> "status", code |-> E_UNEXPECTED]
    /\ calls = << [fn |-> "empty_recycle_bin", ret |-> "False"] >>
    /\ Len(printed) = 1
    /\ Contains(printed[1], TXT_FAILED \o <<45, 50, 49, 52, 55, 52, 49, 56, 49, 49, 51>>)

RECURSIVE LeadingNumberFrom(_, _, _)
\* the number the digits of s from i up to the first other character spell,
\* after the digits acc
LeadingNumberFrom(s, i, acc) ==
    IF i <= Len(s) /\ s[i] \in 48..57
    THEN LeadingNumberFrom(s, i + 1, 10 * acc + (s[i] - 48))
    ELSE acc

\* the whole part of the number a formatted size starts with
LeadingNumber(s) == LeadingNumberFrom(s, 1, 0)

\* C17: for a byte count below 1024^6 the number format_size prints at
\* precision 2, and the number format_size_simple prints, is less than 1024:
\* rounding never gives "1024.00 KB" or "1024 KB" in place of the next unit.
C17_PrintedNumberBelow1024 ==
    (\/ IsCall("format_size") /\ call.precision = 2
     \/ IsCall("format_size_simple"))
        => (BelowPow1024(call.size_bytes, 6) => LeadingNumber(call.ret) < 1024)

====
